---- MODULE Spec2Model ----
(***************************************************************************)
(* Typed configuration accessor of allpix-squared                          *)
(* (src/core/config/Configuration.tpp).                                    *)
(*                                                                         *)
(* The store config_ is a std::map<std::string, std::string>: a function   *)
(* whose domain is the set of keys that have an entry.  Raw text is a      *)
(* sequence of one-character strings.  A call of the accessor ends either  *)
(* by returning a value or by throwing; both are records with a field      *)
(* kind, which is "return" or the name of the exception class.             *)
(***************************************************************************)
EXTENDS Integers, Sequences, FiniteSets, TLC

VARIABLES config_, last

vars == <<config_, last>>

(***************************************************************************)
(* Bounds of the model.                                                    *)
(***************************************************************************)
\* largest value of the numeric type T (the model's stand-in for INT_MAX)
IntMax == 9
\* longest raw text of the exhaustive text specification
MaxLen == 5

Keys == {"a", "b"}

(***************************************************************************)
(* Outcomes of a call.                                                     *)
(***************************************************************************)
Ret(v) == [kind |-> "return", val |-> v]

Throw(class, what) == [kind |-> class, what |-> what]

MissingKeyError(key) == [kind |-> "MissingKeyError", key |-> key]

InvalidKeyError(key, text, type, what) ==
    [kind |-> "InvalidKeyError", key |-> key, text |-> text, type |-> type, what |-> what]

(***************************************************************************)
(* The store.                                                              *)
(***************************************************************************)
has(cfg, key) == key \in DOMAIN cfg

\* std::map::at: the text of the key, std::out_of_range without an entry
at(cfg, key) ==
    IF has(cfg, key) THEN Ret(cfg[key]) ELSE Throw("std::out_of_range", "map::at")

\* std::map::operator[] followed by assignment: insert or overwrite
assign(cfg, key, text) ==
    [k \in DOMAIN cfg \cup {key} |-> IF k = key THEN text ELSE cfg[k]]

(***************************************************************************)
(* Type converter (collaborator): decimal text <-> T, T = 0 .. IntMax.     *)
(***************************************************************************)
Digits == <<"0", "1", "2", "3", "4", "5", "6", "7", "8", "9">>

IsDigit(c) == \E d \in 1..10 : Digits[d] = c

DigitVal(c) == (CHOOSE d \in 1..10 : Digits[d] = c) - 1

RECURSIVE DecimalValue(_)
DecimalValue(s) ==
    IF s = <<>> THEN 0
    ELSE 10 * DecimalValue(SubSeq(s, 1, Len(s) - 1)) + DigitVal(s[Len(s)])

RECURSIVE DecimalText(_)
DecimalText(n) ==
    IF n < 10 THEN <<Digits[n + 1]>>
    ELSE DecimalText(n \div 10) \o <<Digits[(n % 10) + 1]>>

\* from_string<T>: malformed text is std::invalid_argument, a value outside
\* the range of T is std::overflow_error
from_string(text) ==
    IF text = <<>> \/ \E i \in 1..Len(text) : ~IsDigit(text[i])
    THEN Throw("std::invalid_argument", "conversion not possible")
    ELSE IF DecimalValue(text) > IntMax
         THEN Throw("std::overflow_error", "overflow")
         ELSE Ret(DecimalValue(text))

\* to_string<T>: total; T = "std::string" returns the text itself
to_string(type, val) == IF type = "int" THEN DecimalText(val) ELSE val

RECURSIVE join(_, _)
join(texts, sep) ==
    IF texts = <<>> THEN <<>>
    ELSE IF Len(texts) = 1 THEN texts[1]
         ELSE texts[1] \o sep \o join(Tail(texts), sep)

\* to_string applied to a whole std::vector<T>
to_string_vector(type, val) ==
    join([i \in 1..Len(val) |-> to_string(type, val[i])], <<",">>)

(***************************************************************************)
(* Structural parser (collaborator): raw text -> tree of nodes.            *)
(***************************************************************************)
Node(value, children) == [value |-> value, children |-> children]

RECURSIVE trim_left(_)
trim_left(s) == IF s # <<>> /\ s[1] = " " THEN trim_left(Tail(s)) ELSE s

RECURSIVE trim_right(_)
trim_right(s) ==
    IF s # <<>> /\ s[Len(s)] = " " THEN trim_right(SubSeq(s, 1, Len(s) - 1)) ELSE s

trim(s) == trim_right(trim_left(s))

\* the comma-separated pieces of s at bracket depth 0; ok is FALSE when the
\* brackets of s do not match
RECURSIVE split(_, _, _, _, _)
split(s, i, depth, cur, acc) ==
    IF i > Len(s)
    THEN [ok |-> depth = 0, parts |-> Append(acc, cur)]
    ELSE CASE s[i] = "[" -> split(s, i + 1, depth + 1, Append(cur, s[i]), acc)
           [] s[i] = "]" ->
                IF depth = 0 THEN [ok |-> FALSE, parts |-> <<>>]
                ELSE split(s, i + 1, depth - 1, Append(cur, s[i]), acc)
           [] s[i] = "," /\ depth = 0 -> split(s, i + 1, depth, <<>>, Append(acc, cur))
           [] OTHER -> split(s, i + 1, depth, Append(cur, s[i]), acc)

Malformed == Throw("std::invalid_argument", "malformed structure")

\* one element: a bare token is a leaf, [ ... ] is a container of elements;
\* the value of either is its trimmed text
RECURSIVE parse_element(_)
parse_element(str) ==
    LET t == trim(str) IN
    IF t = <<>> THEN Malformed
    ELSE IF t[1] = "["
    THEN IF t[Len(t)] # "]" THEN Malformed
         ELSE LET inner == SubSeq(t, 2, Len(t) - 1)
                  s == split(inner, 1, 0, <<>>, <<>>)
              IN  IF ~s.ok THEN Malformed
                  ELSE LET sub == [i \in 1..Len(s.parts) |-> parse_element(s.parts[i])]
                       IN  IF \E i \in 1..Len(sub) : sub[i].kind # "return"
                           THEN Malformed
                           ELSE Ret(Node(t, [i \in 1..Len(sub) |-> sub[i].val]))
    ELSE IF \E i \in 1..Len(t) : t[i] \in {"[", "]"} THEN Malformed
         ELSE Ret(Node(t, <<>>))

\* parse_value: the root's children are the top-level elements, its value
\* the trimmed text; the empty text is the empty list
parse_value(str) ==
    LET t == trim(str) IN
    IF t = <<>> THEN Ret(Node(<<>>, <<>>))
    ELSE LET s == split(t, 1, 0, <<>>, <<>>) IN
         IF ~s.ok THEN Malformed
         ELSE LET sub == [i \in 1..Len(s.parts) |-> parse_element(s.parts[i])]
              IN  IF \E i \in 1..Len(sub) : sub[i].kind # "return"
                  THEN Malformed
                  ELSE Ret(Node(t, [i \in 1..Len(sub) |-> sub[i].val]))

(***************************************************************************)
(* Typed accessor: Configuration.tpp.                                      *)
(***************************************************************************)
\* the body of get's try block: lookup, parse, convert the root's value;
\* the inner handler rethrows the converter's std::invalid_argument as
\* InvalidKeyError with the node's text
get_try(cfg, key) ==
    LET str == at(cfg, key) IN
    IF str.kind # "return" THEN str
    ELSE LET node == parse_value(str.val) IN
         IF node.kind # "return" THEN node
         ELSE LET r == from_string(node.val.value) IN
              IF r.kind = "std::invalid_argument"
              THEN InvalidKeyError(key, node.val.value, "int", r.what)
              ELSE r

\* the text the outer handlers read back with config_.at(key)
rethrow(cfg, key, e) ==
    LET str == at(cfg, key) IN
    IF str.kind # "return" THEN str
    ELSE InvalidKeyError(key, str.val, "int", e.what)

\* get whose std::out_of_range handler throws InvalidKeyError
get_missing_as_invalid(cfg, key) ==
    LET r == get_try(cfg, key) IN
    CASE r.kind = "std::out_of_range" -> InvalidKeyError(key, <<>>, "int", r.what)
      [] r.kind = "std::invalid_argument" -> rethrow(cfg, key, r)
      [] r.kind = "std::overflow_error" -> rethrow(cfg, key, r)
      [] OTHER -> r

\* get without the std::overflow_error handler
get_no_overflow_handler(cfg, key) ==
    LET r == get_try(cfg, key) IN
    CASE r.kind = "std::out_of_range" -> MissingKeyError(key)
      [] r.kind = "std::invalid_argument" -> rethrow(cfg, key, r)
      [] OTHER -> r

get(cfg, key) ==
    LET r == get_try(cfg, key) IN
    CASE r.kind = "std::out_of_range" -> MissingKeyError(key)
      [] r.kind = "std::invalid_argument" -> rethrow(cfg, key, r)
      [] r.kind = "std::overflow_error" -> rethrow(cfg, key, r)
      [] OTHER -> r

get_default(cfg, key, def) ==
    IF has(cfg, key) THEN get(cfg, key) ELSE Ret(def)

\* the loop over the children that skips an element that does not convert
RECURSIVE convert_children_skip(_, _, _, _)
convert_children_skip(key, children, i, array) ==
    IF i > Len(children) THEN Ret(array)
    ELSE LET r == from_string(children[i].value) IN
         IF r.kind # "return"
         THEN convert_children_skip(key, children, i + 1, array)
         ELSE convert_children_skip(key, children, i + 1, Append(array, r.val))

\* the loop over the children of a node: convert each value in order, the
\* first failure ends the loop; std::invalid_argument is rethrown at once as
\* InvalidKeyError with the child's text, anything else propagates
RECURSIVE convert_children(_, _, _, _)
convert_children(key, children, i, array) ==
    IF i > Len(children) THEN Ret(array)
    ELSE LET r == from_string(children[i].value) IN
         IF r.kind = "std::invalid_argument"
         THEN InvalidKeyError(key, children[i].value, "int", r.what)
         ELSE IF r.kind # "return" THEN r
              ELSE convert_children(key, children, i + 1, Append(array, r.val))

getArray_try(cfg, key) ==
    LET str == at(cfg, key) IN
    IF str.kind # "return" THEN str
    ELSE LET node == parse_value(str.val) IN
         IF node.kind # "return" THEN node
         ELSE convert_children(key, node.val.children, 1, <<>>)

\* getArray whose first handler catches std::logic_error, the base class of
\* std::out_of_range and of std::invalid_argument
getArray_catch_logic_error(cfg, key) ==
    LET r == getArray_try(cfg, key) IN
    CASE r.kind \in {"std::out_of_range", "std::invalid_argument"} -> MissingKeyError(key)
      [] r.kind = "std::overflow_error" -> rethrow(cfg, key, r)
      [] OTHER -> r

getArray(cfg, key) ==
    LET r == getArray_try(cfg, key) IN
    CASE r.kind = "std::out_of_range" -> MissingKeyError(key)
      [] r.kind = "std::invalid_argument" -> rethrow(cfg, key, r)
      [] r.kind = "std::overflow_error" -> rethrow(cfg, key, r)
      [] OTHER -> r

\* getArray with a default that falls back to the default on any failure
getArray_default_on_failure(cfg, key, def) ==
    IF has(cfg, key) /\ getArray(cfg, key).kind = "return" THEN getArray(cfg, key) ELSE Ret(def)

getArray_default(cfg, key, def) ==
    IF has(cfg, key) THEN getArray(cfg, key) ELSE Ret(def)

\* the loop over the rows without the check for a child without children
RECURSIVE convert_rows_unchecked(_, _, _, _)
convert_rows_unchecked(key, children, i, matrix) ==
    IF i > Len(children) THEN Ret(matrix)
    ELSE LET row == convert_children(key, children[i].children, 1, <<>>) IN
         IF row.kind # "return" THEN row
         ELSE convert_rows_unchecked(key, children, i + 1, Append(matrix, row.val))

\* the loop over the rows of a matrix: a child without children throws
\* std::invalid_argument, otherwise the row is converted as an array
RECURSIVE convert_rows(_, _, _, _)
convert_rows(key, children, i, matrix) ==
    IF i > Len(children) THEN Ret(matrix)
    ELSE IF children[i].children = <<>>
         THEN Throw("std::invalid_argument", "matrix has less than two dimensions")
         ELSE LET row == convert_children(key, children[i].children, 1, <<>>) IN
              IF row.kind # "return" THEN row
              ELSE convert_rows(key, children, i + 1, Append(matrix, row.val))

getMatrix_try(cfg, key) ==
    LET str == at(cfg, key) IN
    IF str.kind # "return" THEN str
    ELSE LET node == parse_value(str.val) IN
         IF node.kind # "return" THEN node
         ELSE convert_rows(key, node.val.children, 1, <<>>)

getMatrix(cfg, key) ==
    LET r == getMatrix_try(cfg, key) IN
    CASE r.kind = "std::out_of_range" -> MissingKeyError(key)
      [] r.kind = "std::invalid_argument" -> rethrow(cfg, key, r)
      [] r.kind = "std::overflow_error" -> rethrow(cfg, key, r)
      [] OTHER -> r

getMatrix_default(cfg, key, def) ==
    IF has(cfg, key) THEN getMatrix(cfg, key) ELSE Ret(def)

\* set that inserts (std::map::emplace) and so keeps an existing entry
set_emplace(cfg, key, type, val) ==
    IF has(cfg, key) THEN cfg ELSE assign(cfg, key, to_string(type, val))

\* set<T>: the store after config_[key] = to_string(val)
set(cfg, key, type, val) == assign(cfg, key, to_string(type, val))

\* the loop of setArray: every pass appends "," and to_string of the whole
\* vector val
RECURSIVE setArray_loop(_, _, _)
setArray_loop(type, val, n) ==
    IF n = 0 THEN <<>>
    ELSE setArray_loop(type, val, n - 1) \o <<",">> \o to_string_vector(type, val)

setArray(cfg, key, type, val) ==
    set(cfg, key, "std::string", setArray_loop(type, val, Len(val)))

\* setDefault without the has(key) check
setDefault_unchecked(cfg, key, type, val) == set(cfg, key, type, val)

setDefault(cfg, key, type, val) ==
    IF ~has(cfg, key) THEN set(cfg, key, type, val) ELSE cfg

setDefaultArray(cfg, key, type, val) ==
    IF ~has(cfg, key) THEN setArray(cfg, key, type, val) ELSE cfg

(***************************************************************************)
(* Arguments of the calls.                                                 *)
(***************************************************************************)
Ints == 0..IntMax

\* vectors handed to setArray and setDefaultArray
Arrays == {<<>>, <<1>>, <<1, 2>>, <<2, 1>>}

\* raw texts written with set<std::string>: a malformed scalar, an array, a
\* padded scalar, an out-of-range scalar, a matrix with rows of unequal
\* length, unmatched brackets
Texts ==
    { <<"x">>,
      <<"1", ",", "2">>,
      <<" ", "7", " ">>,
      <<"1", "2">>,
      <<"[", "1", ",", "2", "]", ",", "[", "2", "]">>,
      <<"[", "1">> }

DefaultInts == {0, IntMax}

DefaultArrays == {<<>>, <<2, 1>>}

DefaultMatrices == {<<>>, <<<<1>>, <<2, 1>>>>}

\* every raw text of at most MaxLen characters over Alphabet
Alphabet == {"1", "x", ",", "[", "]"}

AllTexts == UNION {[1..n -> Alphabet] : n \in 0..MaxLen}

(***************************************************************************)
(* The calls.  last records the call that ran last: the operation, its     *)
(* arguments, whether the key had an entry when it was called, and how it  *)
(* ended.                                                                  *)
(***************************************************************************)
Call(op, key, type, arg, out) ==
    [op |-> op, key |-> key, had |-> has(config_, key), type |-> type, arg |-> arg, out |-> out]

Void == Ret(<<>>)

Get(key) ==
    /\ last' = Call("get", key, "int", <<>>, get(config_, key))
    /\ config_' = config_

\* get with a default that also stores the default it returns
GetDefault_persist(key, def) ==
    /\ last' = Call("get_default", key, "int", def, get_default(config_, key, def))
    /\ config_' = setDefault(config_, key, "int", def)

GetDefault(key, def) ==
    /\ last' = Call("get_default", key, "int", def, get_default(config_, key, def))
    /\ config_' = config_

GetArray(key) ==
    /\ last' = Call("getArray", key, "int", <<>>, getArray(config_, key))
    /\ config_' = config_

GetArrayDefault(key, def) ==
    /\ last' = Call("getArray_default", key, "int", def, getArray_default(config_, key, def))
    /\ config_' = config_

GetMatrix(key) ==
    /\ last' = Call("getMatrix", key, "int", <<>>, getMatrix(config_, key))
    /\ config_' = config_

GetMatrixDefault(key, def) ==
    /\ last' = Call("getMatrix_default", key, "int", def, getMatrix_default(config_, key, def))
    /\ config_' = config_

Set(key, type, val) ==
    /\ last' = Call("set", key, type, val, Void)
    /\ config_' = set(config_, key, type, val)

SetArray(key, val) ==
    /\ last' = Call("setArray", key, "int", val, Void)
    /\ config_' = setArray(config_, key, "int", val)

SetDefault(key, type, val) ==
    /\ last' = Call("setDefault", key, type, val, Void)
    /\ config_' = setDefault(config_, key, type, val)

SetDefaultArray(key, val) ==
    /\ last' = Call("setDefaultArray", key, "int", val, Void)
    /\ config_' = setDefaultArray(config_, key, "int", val)

Reads(key) ==
    \/ Get(key)
    \/ \E def \in DefaultInts : GetDefault(key, def)
    \/ GetArray(key)
    \/ \E def \in DefaultArrays : GetArrayDefault(key, def)
    \/ GetMatrix(key)
    \/ \E def \in DefaultMatrices : GetMatrixDefault(key, def)

Writes(key) ==
    \/ \E val \in Ints : Set(key, "int", val)
    \/ \E val \in Texts : Set(key, "std::string", val)
    \/ \E val \in Arrays : SetArray(key, val)
    \/ \E val \in Ints : SetDefault(key, "int", val)
    \/ \E val \in Arrays : SetDefaultArray(key, val)

Constructed == [op |-> "Configuration", key |-> "", had |-> FALSE, type |-> "", arg |-> <<>>, out |-> Void]

\* a freshly constructed configuration has no entries
Init ==
    /\ config_ = <<>>
    /\ last = Constructed

Next == \E key \in Keys : Reads(key) \/ Writes(key)

Spec == Init /\ [][Next]_vars

\* every raw text of at most MaxLen characters under the key "a", or no entry
InitText ==
    /\ config_ \in {<<>>} \cup {assign(<<>>, "a", text) : text \in AllTexts}
    /\ last = Constructed

NextText == Reads("a")

SpecText == InitText /\ [][NextText]_vars
(***************************************************************************)
(* Properties.                                                             *)
(***************************************************************************)
PlainOps == {"get", "getArray", "getMatrix"}

DefaultOps == {"get_default", "getArray_default", "getMatrix_default"}

ReadOps == PlainOps \cup DefaultOps

\* the outcome of the call without a default that belongs to a read
Plain(op, cfg, key) ==
    CASE op \in {"get", "get_default"} -> get(cfg, key)
      [] op \in {"getArray", "getArray_default"} -> getArray(cfg, key)
      [] op \in {"getMatrix", "getMatrix_default"} -> getMatrix(cfg, key)

\* the first index of seq at which P holds, Len(seq) + 1 when there is none
First(seq, P(_)) ==
    IF \E i \in 1..Len(seq) : P(seq[i])
    THEN CHOOSE i \in 1..Len(seq) : P(seq[i]) /\ \A j \in 1..(i - 1) : ~P(seq[j])
    ELSE Len(seq) + 1

Fails(node) == from_string(node.value).kind # "return"

Childless(node) == node.children = <<>>

NoDimension == "matrix has less than two dimensions"

\* C1: a read of a key without an entry throws MissingKeyError when it has
\* no default and returns exactly its default when it has one, and the store
\* is the same after it.
C1_AbsentKey ==
    [][(last'.op \in ReadOps /\ ~has(config_, last'.key)) =>
          /\ config_' = config_
          /\ last'.op \in PlainOps => last'.out = MissingKeyError(last'.key)
          /\ last'.op \in DefaultOps => last'.out = Ret(last'.arg)]_vars

C1_Witness ==
    /\ last.op = "getMatrix_default"
    /\ ~last.had
    /\ last.arg # <<>>
    /\ last.out = Ret(last.arg)
    /\ config_ # <<>>

\* C2: MissingKeyError is thrown only by get, getArray and getMatrix without
\* a default on a key that has no entry: never for a key that has one,
\* whatever the parser and the converter do with its text, never by a read
\* with a default, never by set, setArray, setDefault or setDefaultArray.
C2_MissingOnlyWhenAbsent ==
    last.out.kind = "MissingKeyError" => (~last.had /\ last.op \in PlainOps)

C2_Witness ==
    /\ last.op = "getArray"
    /\ last.had
    /\ last.out.kind = "InvalidKeyError"
    /\ last.out.what = "malformed structure"

\* C3: on a key that has an entry whose text does not convert, a read with a
\* default throws the same InvalidKeyError as the read without a default,
\* and does not return the default.
C3_DefaultDoesNotMask ==
    (last.op \in DefaultOps /\ last.had) =>
        LET plain == Plain(last.op, config_, last.key) IN
        plain.kind # "return" =>
            /\ plain.kind = "InvalidKeyError"
            /\ last.out = plain

C3_Witness ==
    /\ last.op = "getArray_default"
    /\ last.had
    /\ last.arg # <<>>
    /\ last.out.kind = "InvalidKeyError"
    /\ last.out.text # config_[last.key]

\* C4: setArray stores the serializations of the elements, one per element
\* in order, joined by the separator, and getArray then returns the vector.
C4_SetArrayJoinsElements ==
    last.op = "setArray" =>
        /\ config_[last.key] =
              join([i \in 1..Len(last.arg) |-> to_string(last.type, last.arg[i])], <<",">>)
        /\ getArray(config_, last.key) = Ret(last.arg)

C6_SetGetRoundTrip ==
    [][/\ last'.op = "set" =>
            /\ has(config_', last'.key)
            /\ config_'[last'.key] = to_string(last'.type, last'.arg)
            /\ last'.type = "int" => get(config_', last'.key) = Ret(last'.arg)
       /\ (/\ last.op = "set"
           /\ last.type = "int"
           /\ last'.op = "get"
           /\ last'.key = last.key) => last'.out = Ret(last.arg)]_vars

C6_Witness ==
    /\ last.op = "set"
    /\ last.type = "int"
    /\ last.had
    /\ last.arg = IntMax
    /\ get(config_, last.key) = Ret(IntMax)

\* C7 as stated: getMatrix on a key whose text parses throws InvalidKeyError
\* with the reason "matrix has less than two dimensions" whenever some
\* top-level child has no children, and every row it returns is non-empty.
C7_ChildlessRowReason ==
    (last.op = "getMatrix" /\ last.had) =>
        LET node == parse_value(config_[last.key]) IN
        node.kind = "return" =>
            /\ (\E i \in 1..Len(node.val.children) : Childless(node.val.children[i])) =>
                  (last.out.kind = "InvalidKeyError" /\ last.out.what = NoDimension)
            /\ last.out.kind = "return" =>
                  \A i \in 1..Len(last.out.val) : last.out.val[i] # <<>>

\* C7 amended: getMatrix on a key whose text parses throws InvalidKeyError
\* whenever some top-level child has no children, and returns no matrix; the
\* reason is "matrix has less than two dimensions" when every element of the
\* rows before the first such child converts (the rows are handled in order);
\* every row of a returned matrix is non-empty.
C7_ChildlessRowRejected ==
    (last.op = "getMatrix" /\ last.had) =>
        LET node == parse_value(config_[last.key]) IN
        node.kind = "return" =>
            LET rows == node.val.children
                first == First(rows, Childless)
            IN  /\ first <= Len(rows) =>
                      /\ last.out.kind = "InvalidKeyError"
                      /\ (\A j \in 1..(first - 1) :
                            \A e \in 1..Len(rows[j].children) : ~Fails(rows[j].children[e]))
                            => (last.out.what = NoDimension /\ last.out.text = config_[last.key])
                /\ last.out.kind = "return" =>
                      /\ first > Len(rows)
                      /\ \A i \in 1..Len(last.out.val) : last.out.val[i] # <<>>

C7_Witness ==
    /\ last.op = "getMatrix"
    /\ last.had
    /\ last.out.kind = "InvalidKeyError"
    /\ last.out.what = NoDimension
    /\ LET node == parse_value(config_[last.key]) IN
       /\ Len(node.val.children) = 2
       /\ ~Childless(node.val.children[1])

\* C8 as stated: when an element of getArray does not convert, by
\* std::invalid_argument or by std::overflow_error, the call throws
\* InvalidKeyError with the text of the first such element.
C8_ElementTextRecorded ==
    (last.op = "getArray" /\ last.had) =>
        LET node == parse_value(config_[last.key]) IN
        node.kind = "return" =>
            LET first == First(node.val.children, Fails) IN
            first <= Len(node.val.children) =>
                /\ last.out.kind = "InvalidKeyError"
                /\ last.out.text = node.val.children[first].value

\* C8 amended: when an element of getArray does not convert, the call throws
\* InvalidKeyError and returns no sequence; the first such element decides
\* the text recorded: its own text when it is malformed
\* (std::invalid_argument), the whole stored text when it is out of range
\* (std::overflow_error).
C8_FirstFailingElement ==
    (last.op = "getArray" /\ last.had) =>
        LET node == parse_value(config_[last.key]) IN
        node.kind = "return" =>
            LET first == First(node.val.children, Fails) IN
            IF first <= Len(node.val.children)
            THEN LET r == from_string(node.val.children[first].value) IN
                 /\ last.out.kind = "InvalidKeyError"
                 /\ last.out.what = r.what
                 /\ r.kind = "std::invalid_argument" =>
                       last.out.text = node.val.children[first].value
                 /\ r.kind = "std::overflow_error" => last.out.text = config_[last.key]
            ELSE /\ last.out.kind = "return"
                 /\ Len(last.out.val) = Len(node.val.children)

C8_Witness ==
    /\ last.op = "getArray"
    /\ last.had
    /\ last.out.kind = "InvalidKeyError"
    /\ last.out.what = "overflow"
    /\ last.out.text = config_[last.key]
    /\ Len(parse_value(config_[last.key]).val.children) = 2

\* C9: a read ends by returning, by MissingKeyError or by InvalidKeyError and
\* in no other way: std::out_of_range of the store is MissingKeyError, and
\* std::invalid_argument and std::overflow_error of the parser and of the
\* converter are InvalidKeyError, which carries their reason.
C9_TwoKindsOfFailure ==
    last.op \in ReadOps =>
        /\ last.out.kind \in {"return", "MissingKeyError", "InvalidKeyError"}
        /\ (~last.had /\ last.op \in PlainOps) => last.out.kind = "MissingKeyError"
        /\ (last.had /\ last.op \in {"get", "get_default"}) =>
              LET node == parse_value(config_[last.key]) IN
              IF node.kind # "return"
              THEN last.out.kind = "InvalidKeyError" /\ last.out.what = node.what
              ELSE LET r == from_string(node.val.value) IN
                   r.kind # "return" =>
                       (last.out.kind = "InvalidKeyError" /\ last.out.what = r.what)

C9_Witness ==
    /\ last.op = "get"
    /\ last.had
    /\ last.out.kind = "InvalidKeyError"
    /\ last.out.what = "overflow"

\* C10: a read leaves the store as it is, so get of any key has the same
\* outcome after the read as before it, and a get that follows a get of the
\* same key ends as the first one did.
C10_ReadsChangeNothing ==
    [][last'.op \in ReadOps =>
          /\ config_' = config_
          /\ \A key \in Keys : get(config_', key) = get(config_, key)
          /\ (last.op = "get" /\ last'.op = "get" /\ last'.key = last.key) =>
                last'.out = last.out]_vars

C10_Witness ==
    /\ last.op = "get_default"
    /\ ~last.had
    /\ \E key \in DOMAIN config_ : get(config_, key).kind = "InvalidKeyError"
====
